---- MODULE Spec2Model ----
(***************************************************************************)
(* SpeedPulse (streamlit_app.py): one background speedtest_worker thread   *)
(* appending Samples to a process-wide bounded deque, and any number of   *)
(* Streamlit sessions that run the module top to bottom (the worker start  *)
(* guard) and then the dashboard fragment, which reads the shared state.   *)
(*                                                                         *)
(* Granularity: one action per Python statement that touches shared state. *)
(* Under CPython's global interpreter lock a single dict store, a deque    *)
(* append and list(deque) each run to completion without a thread switch,  *)
(* so each is one atomic step; a switch can happen between any two.        *)
(***************************************************************************)
EXTENDS Integers, Sequences, FiniteSets, TLC

\* ------------------------------------------------------------------ config

INTERVAL_SEC == 30

HISTORY_MAXLEN == 120

ERROR_MAXLEN == 100

\* ------------------------------------------------------------------ bounds

\* Streamlit sessions sharing the process-wide state.
NumSessions == 2

\* Runs of the dashboard fragment, over all sessions.
MaxRenders == 1

\* Measurement cycles of the worker when the collaborator's outcome is free.
MaxTests == 2

\* Measurement cycles of the worker against a scripted collaborator.
MaxScriptedTests == 122

\* Measurement cycles behind the histories a dashboard run is shown alone.
MaxShownTests == 17

Sessions == 1..NumSessions

\* ------------------------------------------------------------------ values

\* Python's None, and a present value v, as sequences (comparable in TLC).
None == <<>>

Some(v) == <<v>>

Min(a, b) == IF a <= b THEN a ELSE b

Max(a, b) == IF a >= b THEN a ELSE b

\* round(): to the nearest multiple of d, ties to even; the result counts d's.
RoundHalfEven(n, d) ==
    LET q == n \div d
        r == n % d
    IN  IF 2 * r < d THEN q
        ELSE IF 2 * r > d THEN q + 1
        ELSE IF q % 2 = 0 THEN q ELSE q + 1

\* round(bits_per_second / 1_000_000, 2), in hundredths of a Mbps.
Round2Mbps(bps) == RoundHalfEven(bps, 10000)

\* round(ping, 1) of a latency given in thousandths of a ms, in tenths of a ms.
Round1Ms(ping) == RoundHalfEven(ping, 100)

\* now.strftime("%I:%M:%S %p") of an instant in seconds: 12-hour clock.
StrfTime(t) ==
    LET sec == t % 86400
        h   == sec \div 3600
        h12 == IF h % 12 = 0 THEN 12 ELSE h % 12
    IN  <<h12, (sec % 3600) \div 60, sec % 60, IF h < 12 THEN "AM" ELSE "PM">>

\* str(e)[:100] of a message given as its sequence of characters.
TruncateErrorKeepsAll(msg) == msg

TruncateError(msg) == SubSeq(msg, 1, Min(Len(msg), ERROR_MAXLEN))

\* The dict appended on success (lines 56-63).
SuccessSample(now, res) ==
    [time     |-> StrfTime(now),
     datetime |-> now,
     download |-> Some(Round2Mbps(res.download)),
     upload   |-> Some(Round2Mbps(res.upload)),
     ping     |-> Some(Round1Ms(res.ping)),
     error    |-> None]

FailureSampleKeepsDownload(now, msg) ==
    [time     |-> StrfTime(now),
     datetime |-> now,
     download |-> Some(0),
     upload   |-> None,
     ping     |-> None,
     error    |-> Some(TruncateError(msg))]

\* The dict appended on failure (lines 68-75).
FailureSample(now, msg) ==
    [time     |-> StrfTime(now),
     datetime |-> now,
     download |-> None,
     upload   |-> None,
     ping     |-> None,
     error    |-> Some(TruncateError(msg))]

\* The last n elements of a sequence.
LastN(s, n) == SubSeq(s, Max(1, Len(s) - n + 1), Len(s))

\* deque(maxlen=120).append(x): appends on the right, and a full deque drops
\* its leftmost element.
DequeAppendNoEvict(d, x) == Append(d, x)

DequeAppend(d, x) ==
    IF Len(d) >= HISTORY_MAXLEN THEN Append(Tail(d), x) ELSE Append(d, x)

\* list(deque): an independent copy of the deque's contents, left to right.
ListCopyDropsFirst(d) == IF d = <<>> THEN d ELSE Tail(d)

ListCopy(d) == d

\* ------------------------------------------------------- the collaborator

\* What speedtest reports: download and upload in bits per second, ping in
\* thousandths of a millisecond.
FirstResult == [download |-> 55304321, upload |-> 12095000, ping |-> 14234]

Results == {FirstResult}

\* str(e) of the exceptions it raises, as character codes: "timeout", and a
\* message of 120 characters.
ShortError == <<116, 105, 109, 101, 111, 117, 116>>

LongError == [i \in 1..120 |-> 97 + (i % 26)]

Errors == {LongError}

\* Seconds one measurement takes.
MeasureSecs == {10}

\* The collaborator injected: "any" succeeds or fails freely; the scripted
\* ones fix the outcome of the n-th measurement.
Collaborators == {"any", "always_ok", "always_fail", "flaky"}

OkOutcomes(c, n) ==
    IF c = "any" THEN Results
    ELSE IF c = "always_ok" \/ (c = "flaky" /\ n % 2 = 1) THEN {FirstResult}
    ELSE {}

ErrOutcomes(c, n) ==
    IF c = "any" THEN Errors
    ELSE IF c = "always_fail" \/ (c = "flaky" /\ n % 2 = 0)
    THEN {IF n % 3 = 0 THEN LongError ELSE ShortError}
    ELSE {}

Durations(c) == MeasureSecs

TestBound(c) == IF c = "any" THEN MaxTests ELSE MaxScriptedTests

\* The wall clock when the process starts: 11:59:30, in seconds of the day.
StartClock == 12 * 3600 - 30

\* ---------------------------------------------------------------- dashboard

TABLE_ROWS == 15

\* df[df[col].notna()]: the rows whose column is not None, in order.
HasError(x) == x.error # None

HasDownload(x) == x.download # None

ErrorRows(df) == SelectSeq(df, HasError)

CleanRowsKeepsAll(df) == df

CleanRows(df) == SelectSeq(df, HasDownload)

\* df.tail(15): the last 15 rows, in order.
TailRowsTakesHead(df) == SubSeq(df, 1, Min(Len(df), TABLE_ROWS))

TailRows(df) == LastN(df, TABLE_ROWS)

\* .iloc[::-1]: the rows in reverse order.
Reversed(df) == [i \in 1..Len(df) |-> df[Len(df) + 1 - i]]

\* [["time", "download", "upload", "ping"]].rename(...): the table's columns.
TableRow(x) ==
    [Time |-> x.time, Download |-> x.download, Upload |-> x.upload, Ping |-> x.ping]

\* Lines 146-159: the status caption. elapsed = int(now - last_test), next_in =
\* max(0, INTERVAL_SEC - elapsed), mins, secs = divmod(elapsed, 60).
StatusBar(is_testing, last_test, now) ==
    IF is_testing
    THEN [kind |-> "running", last |-> None, mins |-> None, secs |-> None,
          next_in |-> None]
    ELSE IF last_test = None
    THEN [kind |-> "waiting", last |-> None, mins |-> None, secs |-> None,
          next_in |-> None]
    ELSE LET elapsed == now - last_test[1]
         IN  [kind    |-> "last_test",
              last    |-> Some(StrfTime(last_test[1])),
              mins    |-> IF elapsed \div 60 # 0 THEN Some(elapsed \div 60) ELSE None,
              secs    |-> Some(elapsed % 60),
              next_in |-> Some(Max(0, INTERVAL_SEC - elapsed))]

\* Lines 167-169: the warning, when some row has an error.
WarningShowsFirstError(df) ==
    LET errors == ErrorRows(df)
    IN  IF errors # <<>>
        THEN Some([count |-> Len(errors), latest |-> errors[1].error[1]])
        ELSE None

Warning(df) ==
    LET errors == ErrorRows(df)
    IN  IF errors # <<>>
        THEN Some([count |-> Len(errors), latest |-> errors[Len(errors)].error[1]])
        ELSE None

NoCharts == [times |-> <<>>, download |-> <<>>, upload |-> <<>>, ping |-> <<>>]

\* Lines 145-219: everything one run of dashboard() shows.
Dashboard(history_snapshot, last_test, is_testing, now) ==
    LET status   == StatusBar(is_testing, last_test, now)
        df_clean == CleanRows(history_snapshot)
    IN  IF history_snapshot = <<>>
        THEN [status |-> status, view |-> "info", warning |-> None,
              metrics |-> None, charts |-> NoCharts, table |-> <<>>]
        ELSE IF df_clean = <<>>
        THEN [status |-> status, view |-> "all_failed",
              warning |-> Warning(history_snapshot),
              metrics |-> None, charts |-> NoCharts, table |-> <<>>]
        ELSE LET latest == df_clean[Len(df_clean)]
             IN  [status  |-> status,
                  view    |-> "metrics",
                  warning |-> Warning(history_snapshot),
                  metrics |-> Some([download |-> latest.download[1],
                                    upload   |-> latest.upload[1],
                                    ping     |-> latest.ping[1]]),
                  charts  |-> [times    |-> [i \in 1..Len(df_clean) |-> df_clean[i].time],
                               download |-> [i \in 1..Len(df_clean) |-> df_clean[i].download[1]],
                               upload   |-> [i \in 1..Len(df_clean) |-> df_clean[i].upload[1]],
                               ping     |-> [i \in 1..Len(df_clean) |-> df_clean[i].ping[1]]],
                  table   |-> [i \in 1..Len(TailRows(df_clean)) |->
                                 TableRow(Reversed(TailRows(df_clean))[i])]]

\* ------------------------------------------------------------------ state

VARIABLES
    history,         \* state["history"]: the deque, oldest first
    thread_started,  \* state["thread_started"]
    lock,            \* state["lock"]: None when free, or Some(holder)
    last_test_time,  \* state["last_test_time"]: None or Some(instant)
    testing,         \* state["testing"]
    wpc,             \* where the worker thread is
    wlocal,          \* the worker's locals: now, the result, the exception
    clock,           \* datetime.now(), in seconds
    collaborator,    \* the measurement collaborator in use
    spc,             \* where each session's script run is
    snap,            \* each dashboard run's locals
    renders,         \* dashboard runs begun so far, over all sessions
    workersStarted,  \* Thread.start() calls so far
    attempts,        \* measurements the worker has begun
    appendLog,       \* every Sample ever appended, in order
    seen             \* every (appends, testing, last_test_time) the shared
                     \* state has held, with where the worker then was

shared == <<history, thread_started, lock, last_test_time, testing>>

vars == <<history, thread_started, lock, last_test_time, testing, wpc, wlocal,
          clock, collaborator, spc, snap, renders, workersStarted, attempts,
          appendLog, seen>>

NoLocals == [now |-> None, result |-> None, e |-> None]

NoSnap == [history_snapshot |-> None, last_test |-> None, is_testing |-> None]

\* get_shared_state(): built once per process by st.cache_resource.
SharedInit ==
    /\ history = <<>>
    /\ thread_started = FALSE
    /\ lock = None
    /\ last_test_time = None
    /\ testing = FALSE

Init ==
    /\ SharedInit
    /\ wpc = "idle"
    /\ wlocal = NoLocals
    /\ clock = StartClock
    /\ collaborator = "any"
    /\ spc = [s \in Sessions |-> "start"]
    /\ snap = [s \in Sessions |-> NoSnap]
    /\ renders = 0
    /\ workersStarted = 0
    /\ attempts = 0
    /\ appendLog = <<>>
    /\ seen = {<<0, FALSE, None, "idle">>}

\* The shared state after a worker step, recorded.
Observe ==
    seen' = seen \cup {<<Len(appendLog'), testing', last_test_time', wpc'>>}

\* ------------------------------------------------------------------ worker

\* Line 47: state["testing"] = True, at the top of the loop.
WorkerSetTestingUnderLock ==
    /\ wpc = "loop"
    /\ attempts < TestBound(collaborator)
    /\ lock = None
    /\ lock' = Some(0)
    /\ testing' = TRUE
    /\ attempts' = attempts + 1
    /\ wpc' = "measuring"
    /\ UNCHANGED <<history, thread_started, last_test_time, wlocal, clock,
                   collaborator, spc, snap, renders, workersStarted, appendLog>>
    /\ Observe

WorkerSetTesting ==
    /\ wpc = "loop"
    /\ attempts < TestBound(collaborator)
    /\ testing' = TRUE
    /\ attempts' = attempts + 1
    /\ wpc' = "measuring"
    /\ UNCHANGED <<history, thread_started, lock, last_test_time, wlocal, clock,
                   collaborator, spc, snap, renders, workersStarted, appendLog>>
    /\ Observe

\* Lines 49-54: the measurement returns; now = datetime.now().
WorkerMeasureOk ==
    /\ wpc = "measuring"
    /\ \E res \in OkOutcomes(collaborator, attempts), d \in Durations(collaborator) :
          /\ clock' = clock + d
          /\ wlocal' = [now |-> Some(clock + d), result |-> Some(res), e |-> None]
    /\ wpc' = "append_ok"
    /\ UNCHANGED <<shared, collaborator, spc, snap, renders, workersStarted,
                   attempts, appendLog, seen>>

\* Lines 49-53 raise, and line 66 catches, an Exception; line 67 takes now.
WorkerMeasureRaise ==
    /\ wpc = "measuring"
    /\ \E msg \in ErrOutcomes(collaborator, attempts), d \in Durations(collaborator) :
          /\ clock' = clock + d
          /\ wlocal' = [now |-> Some(clock + d), result |-> None, e |-> Some(msg)]
    /\ wpc' = "except"
    /\ UNCHANGED <<shared, collaborator, spc, snap, renders, workersStarted,
                   attempts, appendLog, seen>>

\* Lines 56-63: the success Sample is appended.
WorkerAppendOk ==
    /\ wpc = "append_ok"
    /\ LET sample == SuccessSample(wlocal.now[1], wlocal.result[1])
       IN  /\ history' = DequeAppend(history, sample)
           /\ appendLog' = Append(appendLog, sample)
    /\ wpc' = "set_last_ok"
    /\ UNCHANGED <<thread_started, lock, last_test_time, testing, wlocal, clock,
                   collaborator, spc, snap, renders, workersStarted, attempts>>
    /\ Observe

\* Line 64: state["last_test_time"] = now.
WorkerSetLastOkSkipsStore ==
    /\ wpc = "set_last_ok"
    /\ wpc' = "finally"
    /\ UNCHANGED <<shared, wlocal, clock, collaborator, spc, snap, renders,
                   workersStarted, attempts, appendLog, seen>>

WorkerSetLastOk ==
    /\ wpc = "set_last_ok"
    /\ last_test_time' = wlocal.now
    /\ wpc' = "finally"
    /\ UNCHANGED <<history, thread_started, lock, testing, wlocal, clock,
                   collaborator, spc, snap, renders, workersStarted, attempts,
                   appendLog>>
    /\ Observe

\* Lines 68-75: the failure Sample is appended.
WorkerExceptSkipsAppend ==
    /\ wpc = "except"
    /\ wpc' = "set_last_err"
    /\ UNCHANGED <<shared, wlocal, clock, collaborator, spc, snap, renders,
                   workersStarted, attempts, appendLog, seen>>

WorkerExceptReraises ==
    /\ wpc = "except"
    /\ testing' = FALSE
    /\ wlocal' = NoLocals
    /\ wpc' = "dead"
    /\ UNCHANGED <<history, thread_started, lock, last_test_time, clock,
                   collaborator, spc, snap, renders, workersStarted, attempts,
                   appendLog>>
    /\ Observe

WorkerExceptAppend ==
    /\ wpc = "except"
    /\ LET sample == FailureSample(wlocal.now[1], wlocal.e[1])
       IN  /\ history' = DequeAppend(history, sample)
           /\ appendLog' = Append(appendLog, sample)
    /\ wpc' = "set_last_err"
    /\ UNCHANGED <<thread_started, lock, last_test_time, testing, wlocal, clock,
                   collaborator, spc, snap, renders, workersStarted, attempts>>
    /\ Observe

\* Line 76: state["last_test_time"] = now.
WorkerSetLastErr ==
    /\ wpc = "set_last_err"
    /\ last_test_time' = wlocal.now
    /\ wpc' = "finally"
    /\ UNCHANGED <<history, thread_started, lock, testing, wlocal, clock,
                   collaborator, spc, snap, renders, workersStarted, attempts,
                   appendLog>>
    /\ Observe

\* Lines 78-79: finally: state["testing"] = False.
WorkerFinallyKeepsTesting ==
    /\ wpc = "finally"
    /\ wlocal' = NoLocals
    /\ wpc' = "sleep"
    /\ UNCHANGED <<shared, clock, collaborator, spc, snap, renders,
                   workersStarted, attempts, appendLog, seen>>

WorkerFinally ==
    /\ wpc = "finally"
    /\ testing' = FALSE
    /\ wlocal' = NoLocals
    /\ wpc' = "sleep"
    /\ UNCHANGED <<history, thread_started, lock, last_test_time, clock,
                   collaborator, spc, snap, renders, workersStarted, attempts,
                   appendLog>>
    /\ Observe

\* Line 81: time.sleep(INTERVAL_SEC), then back to the top of the loop.
WorkerSleepFromMeasurementStart ==
    /\ wpc = "sleep"
    /\ clock' = last_test_time[1] - 10 + INTERVAL_SEC
    /\ wpc' = "loop"
    /\ UNCHANGED <<shared, wlocal, collaborator, spc, snap, renders,
                   workersStarted, attempts, appendLog, seen>>

WorkerSleep ==
    /\ wpc = "sleep"
    /\ clock' = clock + INTERVAL_SEC
    /\ wpc' = "loop"
    /\ UNCHANGED <<shared, wlocal, collaborator, spc, snap, renders,
                   workersStarted, attempts, appendLog, seen>>

WorkerNext ==
    \/ WorkerSetTesting
    \/ WorkerMeasureOk
    \/ WorkerMeasureRaise
    \/ WorkerAppendOk
    \/ WorkerSetLastOk
    \/ WorkerExceptAppend
    \/ WorkerSetLastErr
    \/ WorkerFinally
    \/ WorkerSleep

\* ---------------------------------------------------------------- sessions

\* Line 83: with state["lock"]: the lock is acquired.
GuardAcquireNoExclusion(s) ==
    /\ spc[s] = "start"
    /\ spc' = [spc EXCEPT ![s] = "check"]
    /\ UNCHANGED <<shared, wpc, wlocal, clock, collaborator, snap, renders,
                   workersStarted, attempts, appendLog, seen>>

GuardAcquire(s) ==
    /\ spc[s] = "start"
    /\ lock = None
    /\ lock' = Some(s)
    /\ spc' = [spc EXCEPT ![s] = "check"]
    /\ UNCHANGED <<history, thread_started, last_test_time, testing, wpc, wlocal,
                   clock, collaborator, snap, renders, workersStarted, attempts,
                   appendLog, seen>>

\* Lines 84-86: if not state["thread_started"]: the thread is made and started.
GuardCheckStartIgnoresFlag(s) ==
    /\ spc[s] = "check"
    /\ workersStarted' = workersStarted + 1
    /\ wpc' = IF wpc = "idle" THEN "loop" ELSE wpc
    /\ spc' = [spc EXCEPT ![s] = "set_flag"]
    /\ UNCHANGED <<shared, wlocal, clock, collaborator, snap, renders, attempts,
                   appendLog, seen>>

GuardCheckStart(s) ==
    /\ spc[s] = "check"
    /\ IF ~thread_started
       THEN /\ workersStarted' = workersStarted + 1
            /\ wpc' = IF wpc = "idle" THEN "loop" ELSE wpc
            /\ spc' = [spc EXCEPT ![s] = "set_flag"]
       ELSE /\ spc' = [spc EXCEPT ![s] = "release"]
            /\ UNCHANGED <<workersStarted, wpc>>
    /\ UNCHANGED <<shared, wlocal, clock, collaborator, snap, renders, attempts,
                   appendLog, seen>>

\* Line 87: state["thread_started"] = True.
GuardSetFlag(s) ==
    /\ spc[s] = "set_flag"
    /\ thread_started' = TRUE
    /\ spc' = [spc EXCEPT ![s] = "release"]
    /\ UNCHANGED <<history, lock, last_test_time, testing, wpc, wlocal, clock,
                   collaborator, snap, renders, workersStarted, attempts,
                   appendLog, seen>>

\* Line 83, leaving the with block: the lock is released; the script goes on
\* to dashboard() (line 221).
GuardRelease(s) ==
    /\ spc[s] = "release"
    /\ lock' = IF lock = Some(s) THEN None ELSE lock
    /\ spc' = [spc EXCEPT ![s] = "read_history"]
    /\ UNCHANGED <<history, thread_started, last_test_time, testing, wpc, wlocal,
                   clock, collaborator, snap, renders, workersStarted, attempts,
                   appendLog, seen>>

\* Line 141: history_snapshot = list(state["history"]).
ReadHistoryDrains(s) ==
    /\ spc[s] = "read_history"
    /\ renders < MaxRenders
    /\ renders' = renders + 1
    /\ snap' = [snap EXCEPT ![s].history_snapshot = Some(ListCopy(history))]
    /\ history' = <<>>
    /\ spc' = [spc EXCEPT ![s] = "read_last"]
    /\ UNCHANGED <<thread_started, lock, last_test_time, testing, wpc, wlocal,
                   clock, collaborator, workersStarted, attempts, appendLog,
                   seen>>

ReadHistory(s) ==
    /\ spc[s] = "read_history"
    /\ renders < MaxRenders
    /\ renders' = renders + 1
    /\ snap' = [snap EXCEPT ![s].history_snapshot = Some(ListCopy(history))]
    /\ spc' = [spc EXCEPT ![s] = "read_last"]
    /\ UNCHANGED <<shared, wpc, wlocal, clock, collaborator, workersStarted,
                   attempts, appendLog, seen>>

\* Line 142: last_test = state["last_test_time"].
ReadLastTest(s) ==
    /\ spc[s] = "read_last"
    /\ snap' = [snap EXCEPT ![s].last_test = Some(last_test_time)]
    /\ spc' = [spc EXCEPT ![s] = "read_testing"]
    /\ UNCHANGED <<shared, wpc, wlocal, clock, collaborator, renders,
                   workersStarted, attempts, appendLog, seen>>

\* Line 143: is_testing = state["testing"].
ReadTesting(s) ==
    /\ spc[s] = "read_testing"
    /\ snap' = [snap EXCEPT ![s].is_testing = Some(testing)]
    /\ spc' = [spc EXCEPT ![s] = "render"]
    /\ UNCHANGED <<shared, wpc, wlocal, clock, collaborator, renders,
                   workersStarted, attempts, appendLog, seen>>

\* What the run of session s shows once its three locals are read: the
\* elements lines 145-219 send to the browser, which are no state of the
\* program.
DashboardOf(s) ==
    Dashboard(snap[s].history_snapshot[1], snap[s].last_test[1],
              snap[s].is_testing[1], clock)

\* Lines 145-219: the fragment renders DashboardOf(s) from its locals and
\* returns; it runs again every REFRESH_SEC.
Render(s) ==
    /\ spc[s] = "render"
    /\ snap' = [snap EXCEPT ![s] = NoSnap]
    /\ spc' = [spc EXCEPT ![s] = "read_history"]
    /\ UNCHANGED <<shared, wpc, wlocal, clock, collaborator, renders,
                   workersStarted, attempts, appendLog, seen>>

SessionNext ==
    \E s \in Sessions :
        \/ GuardAcquire(s)
        \/ GuardCheckStart(s)
        \/ GuardSetFlag(s)
        \/ GuardRelease(s)
        \/ ReadHistory(s)
        \/ ReadLastTest(s)
        \/ ReadTesting(s)
        \/ Render(s)

Next == SessionNext \/ WorkerNext

Spec == Init /\ [][Next]_vars

\* The worker alone, from the state in which the first session has run the
\* start guard and nothing else has happened yet, against each collaborator.
InitWorker ==
    /\ history = <<>>
    /\ thread_started = TRUE
    /\ lock = None
    /\ last_test_time = None
    /\ testing = FALSE
    /\ wpc = "loop"
    /\ wlocal = NoLocals
    /\ clock = StartClock
    /\ collaborator \in Collaborators
    /\ spc = [s \in Sessions |-> IF s = 1 THEN "read_history" ELSE "start"]
    /\ snap = [s \in Sessions |-> NoSnap]
    /\ renders = 0
    /\ workersStarted = 1
    /\ attempts = 0
    /\ appendLog = <<>>
    /\ seen = {<<0, FALSE, None, "idle">>}

WorkerSpec == InitWorker /\ [][WorkerNext]_vars

\* The worker is an operating-system thread that nothing blocks: it takes no
\* lock, the measurement call returns or raises, and the sleep ends.
FairWorkerSpec == WorkerSpec /\ WF_vars(WorkerNext)

\* The dashboard alone, run by the first session on the shared state as the
\* worker leaves it after n cycles against a scripted collaborator (the state
\* WorkerSpec reaches when the n-th sleep ends: WorkerLeavesScriptedState).
ScriptedOutcomeIsOk(c, i) == OkOutcomes(c, i) # {}

ScriptedTime(i) == StartClock + 10 * i + INTERVAL_SEC * (i - 1)

ScriptedSample(c, i) ==
    IF ScriptedOutcomeIsOk(c, i)
    THEN SuccessSample(ScriptedTime(i), FirstResult)
    ELSE FailureSample(ScriptedTime(i), CHOOSE msg \in ErrOutcomes(c, i) : TRUE)

ScriptedLog(c, n) == [i \in 1..n |-> ScriptedSample(c, i)]

ScriptedLast(i) == IF i = 0 THEN None ELSE Some(ScriptedTime(i))

ScriptedSeen(c, n) ==
    {<<0, FALSE, None, "idle">>}
    \cup {<<i - 1, TRUE, ScriptedLast(i - 1), "measuring">> : i \in 1..n}
    \cup {<<i, TRUE, ScriptedLast(i - 1),
            IF ScriptedOutcomeIsOk(c, i) THEN "set_last_ok" ELSE "set_last_err">> :
              i \in 1..n}
    \cup {<<i, TRUE, ScriptedLast(i), "finally">> : i \in 1..n}
    \cup {<<i, FALSE, ScriptedLast(i), "sleep">> : i \in 1..n}

ScriptedState(c, n) ==
    /\ history = LastN(ScriptedLog(c, n), HISTORY_MAXLEN)
    /\ thread_started = TRUE
    /\ lock = None
    /\ last_test_time = ScriptedLast(n)
    /\ testing = FALSE
    /\ wpc = "loop"
    /\ wlocal = NoLocals
    /\ clock = StartClock + (10 + INTERVAL_SEC) * n
    /\ collaborator = c
    /\ spc = [s \in Sessions |-> IF s = 1 THEN "read_history" ELSE "start"]
    /\ snap = [s \in Sessions |-> NoSnap]
    /\ renders = 0
    /\ workersStarted = 1
    /\ attempts = n
    /\ appendLog = ScriptedLog(c, n)
    /\ seen = ScriptedSeen(c, n)

\* Under WorkerSpec: whenever the worker is back at the top of its loop
\* against a scripted collaborator, the state is the ScriptedState of its
\* cycles so far.
WorkerLeavesScriptedState ==
    (wpc = "loop" /\ collaborator # "any" /\ attempts <= MaxShownTests) =>
        ScriptedState(collaborator, attempts)

InitRender ==
    \E c \in Collaborators \ {"any"}, n \in 0..MaxShownTests : ScriptedState(c, n)

NextRender ==
    \E s \in Sessions :
        \/ ReadHistory(s)
        \/ ReadLastTest(s)
        \/ ReadTesting(s)
        \/ Render(s)

RenderSpec == InitRender /\ [][NextRender]_vars

\* ------------------------------------------------------------------ claims

IsSuccess(x) ==
    x.download # None /\ x.upload # None /\ x.ping # None /\ x.error = None

IsFailure(x) ==
    x.download = None /\ x.upload = None /\ x.ping = None /\ x.error # None

GuardPcs == {"start", "check", "set_flag", "release"}

DashboardPcs == {"read_history", "read_last", "read_testing", "render"}

\* The positions between line 47 and the end of the finally block.
InFlightPcs ==
    {"measuring", "append_ok", "set_last_ok", "except", "set_last_err", "finally"}

\* The deque's contents after the first n appends.
HistoryAfter(n) == LastN(SubSeq(appendLog, 1, n), HISTORY_MAXLEN)

\* C1: however the start guards of the sessions interleave, at most one worker
\* thread is ever started, and once any session has left the guard exactly one
\* has been started.
C1_SingleWorker ==
    /\ workersStarted <= 1
    /\ (\E s \in Sessions : spc[s] \in DashboardPcs) => workersStarted = 1
    /\ thread_started => workersStarted = 1

\* Every session has run the guard, and one worker runs.
C1_Witness ==
    /\ \A s \in Sessions : spc[s] \in DashboardPcs
    /\ workersStarted = 1
    /\ wpc # "idle"

\* The positions inside a Recording: the Sample is appended, and
\* last_test_time or testing is still to be written.
MidRecordingPcs == {"set_last_ok", "set_last_err", "finally"}

\* C2: the three values a dashboard run has read (history, last_test_time,
\* testing) are together a state the shared state held at one instant at
\* which no Recording was half done.
C2_SnapshotAtomic ==
    \A s \in Sessions :
        spc[s] = "render" =>
            \E o \in seen :
                /\ o[4] \notin MidRecordingPcs
                /\ snap[s].history_snapshot = Some(HistoryAfter(o[1]))
                /\ snap[s].is_testing = Some(o[2])
                /\ snap[s].last_test = Some(o[3])

\* C3: a measurement that raises is recorded as a failure Sample by the very
\* next worker step, the worker then reaches its sleep, and from the sleep it
\* starts the next measurement.
C3_FailureRecovered ==
    /\ [][wpc = "except" =>
            /\ wpc' = "set_last_err"
            /\ Len(appendLog') = Len(appendLog) + 1
            /\ IsFailure(appendLog'[Len(appendLog')])
            /\ history' # <<>>
            /\ history'[Len(history')] = appendLog'[Len(appendLog')]]_vars
    /\ (wpc = "except") ~> (wpc = "sleep")
    /\ (wpc = "sleep" /\ attempts < TestBound(collaborator)) ~> (wpc = "measuring")

\* A failed measurement has been recorded and the worker measures again.
C3_Witness ==
    /\ wpc = "measuring"
    /\ appendLog # <<>>
    /\ IsFailure(appendLog[Len(appendLog)])

\* C4: every measurement begun is followed by exactly one append before the
\* worker sleeps, and whatever the outcomes (all failures included) the worker
\* goes on recording: every measurement cycle within the bound is recorded.
C4_AlwaysRecorded ==
    /\ [](Len(appendLog) =
            IF wpc \in {"measuring", "append_ok", "except"}
            THEN attempts - 1 ELSE attempts)
    /\ <>(Len(appendLog) = TestBound(collaborator))

\* Three measurements in a row have failed and all three are recorded.
C4_Witness ==
    /\ wpc = "sleep"
    /\ Len(appendLog) = 3
    /\ attempts = 3
    /\ \A i \in 1..3 : IsFailure(appendLog[i])

\* C5: the deque never holds more than 120 Samples, and holds exactly the last
\* min(N, 120) of the N Samples appended so far, oldest first.
C5_Capacity ==
    /\ Len(history) <= HISTORY_MAXLEN
    /\ history = LastN(appendLog, HISTORY_MAXLEN)

\* After 121 appends the deque holds 120 Samples and starts with the second.
C5_Witness ==
    /\ Len(appendLog) = HISTORY_MAXLEN + 1
    /\ Len(history) = HISTORY_MAXLEN
    /\ history[1] = appendLog[2]
    /\ history[1] # appendLog[1]

\* C6: every Sample ever appended is either a success (the three readings
\* present, no error) or a failure (an error, no reading), never both or neither.
C6_OneShape ==
    \A i \in 1..Len(appendLog) :
        /\ IsSuccess(appendLog[i]) \/ IsFailure(appendLog[i])
        /\ ~(IsSuccess(appendLog[i]) /\ IsFailure(appendLog[i]))

\* Samples of both shapes have been appended.
C6_Witness ==
    /\ \E i \in 1..Len(appendLog) : IsSuccess(appendLog[i])
    /\ \E i \in 1..Len(appendLog) : IsFailure(appendLog[i])

\* C7: the list a dashboard run has copied from the deque is the deque's
\* contents after some complete prefix of the worker's appends.
C7_SnapshotIsPrefix ==
    \A s \in Sessions :
        snap[s].history_snapshot # None =>
            \E k \in 0..Len(appendLog) :
                snap[s].history_snapshot = Some(HistoryAfter(k))

\* A copy of one Sample is held after the worker has appended a second.
C7_Witness ==
    \E s \in Sessions :
        /\ snap[s].history_snapshot # None
        /\ Len(snap[s].history_snapshot[1]) = 1
        /\ Len(appendLog) = 2

\* C8: testing is true only between line 47 and the end of the finally block,
\* false whenever the worker sleeps, has not started, or no longer runs, and
\* there is never more than one worker to have a measurement in flight.
C8_TestingInFlight ==
    /\ testing => wpc \in InFlightPcs
    /\ wpc \in {"idle", "loop", "sleep", "dead"} => ~testing
    /\ workersStarted <= 1

\* The worker sleeps after its second measurement.
C8_Witness ==
    /\ wpc = "sleep"
    /\ attempts = 2
    /\ ~testing

\* C9: while the worker measures or sleeps the lock is free or held by a
\* session inside the start guard, whose holder can always take its next step;
\* a dashboard run can always take its next read.
C9_WorkerHoldsNoLock ==
    /\ wpc \in {"measuring", "sleep"} =>
          \/ lock = None
          \/ \E s \in Sessions :
                /\ lock = Some(s)
                /\ spc[s] \in {"check", "set_flag", "release"}
                /\ ENABLED (GuardCheckStart(s) \/ GuardSetFlag(s) \/ GuardRelease(s))
    /\ \A s \in Sessions :
          /\ (spc[s] = "start" /\ lock = None) => ENABLED GuardAcquire(s)
          /\ spc[s] = "read_last" => ENABLED ReadLastTest(s)
          /\ spc[s] = "read_testing" => ENABLED ReadTesting(s)
          /\ spc[s] = "render" => ENABLED Render(s)

\* A session holds the lock while the worker is in a measurement.
C9_Witness ==
    /\ wpc = "measuring"
    /\ \E s \in Sessions : lock = Some(s) /\ spc[s] = "check"

\* C10: a step of a dashboard run leaves the deque, testing, last_test_time and
\* thread_started as they are, and a step that changes the deque, testing or
\* last_test_time is a step of the worker.
C10_ReadOnlyDashboard ==
    [][/\ snap' # snap =>
            UNCHANGED <<history, testing, last_test_time, thread_started>>
       /\ <<history, testing, last_test_time>>' # <<history, testing, last_test_time>> =>
            (wpc' # wpc /\ spc' = spc /\ snap' = snap)]_vars

\* A dashboard run has copied a deque that holds Samples, and the deque still
\* holds them.
C10_Witness ==
    \E s \in Sessions :
        /\ spc[s] = "read_last"
        /\ history # <<>>
        /\ snap[s].history_snapshot = Some(history)

\* C11: the sleep lasts the whole interval counted from the instant the
\* Recording finished (the clock of the sleeping state), so no measurement
\* begins less than INTERVAL_SEC after the previous Recording finished, which
\* is later than INTERVAL_SEC after the previous measurement began; and from
\* the sleep the worker goes back to measuring.
C11_FullIntervalAfterRecording ==
    /\ [][wpc = "sleep" => (wpc' = "loop" /\ clock' >= clock + INTERVAL_SEC)]_vars
    /\ [][(wpc = "loop" /\ wpc' = "measuring" /\ attempts >= 1) =>
            /\ last_test_time # None
            /\ clock >= last_test_time[1] + INTERVAL_SEC
            /\ clock' = clock]_vars
    /\ (wpc = "sleep" /\ attempts < TestBound(collaborator)) ~>
          (/\ wpc = "measuring"
           /\ last_test_time # None
           /\ clock >= last_test_time[1] + INTERVAL_SEC)

\* A second measurement has begun, a full interval after the first Recording.
C11_Witness ==
    /\ wpc = "measuring"
    /\ attempts = 2
    /\ clock = last_test_time[1] + INTERVAL_SEC

\* C12: the error of a recorded failure Sample is the first min(len, 100)
\* characters of the exception's message, so never longer than 100, and the
\* Sample has no reading.
C12_ErrorTruncated ==
    /\ wpc = "set_last_err" =>
          LET x   == appendLog[Len(appendLog)]
              msg == wlocal.e[1]
          IN  /\ x.error # None
              /\ Len(x.error[1]) = Min(Len(msg), ERROR_MAXLEN)
              /\ \A i \in 1..Len(x.error[1]) : x.error[1][i] = msg[i]
              /\ x.download = None /\ x.upload = None /\ x.ping = None
    /\ \A i \in 1..Len(appendLog) :
          appendLog[i].error # None => Len(appendLog[i].error[1]) <= ERROR_MAXLEN

\* A message of 120 characters has been recorded as its first 100.
C12_Witness ==
    /\ wpc = "set_last_err"
    /\ Len(wlocal.e[1]) = 120
    /\ Len(appendLog[Len(appendLog)].error[1]) = 100
    /\ appendLog[Len(appendLog)].error[1][100] = wlocal.e[1][100]

\* The positions of the failures, and of the successes, in a list of Samples.
FailedAt(hs) == {i \in 1..Len(hs) : IsFailure(hs[i])}

SucceededAt(hs) == {i \in 1..Len(hs) : IsSuccess(hs[i])}

\* The j-th largest element of a set of numbers.
NthLargest(S, j) == CHOOSE x \in S : Cardinality({y \in S : y > x}) = j - 1

\* C13: a dashboard run shows exactly one view: the info message if and only
\* if its list is empty, the all-failed error if and only if the list is not
\* empty and every Sample in it is a failure, the metrics otherwise; and
\* whenever some Sample in a non-empty list is a failure it shows the warning,
\* with the number of failures and the message of the most recent one.
C13_OneView ==
    \A s \in Sessions :
          spc[s] = "render" =>
              LET hs    == snap[s].history_snapshot[1]
                  out   == DashboardOf(s)
                  fails == FailedAt(hs)
              IN  /\ out.view \in {"info", "all_failed", "metrics"}
                  /\ (out.view = "info") <=> (hs = <<>>)
                  /\ (out.view = "all_failed") <=> (hs # <<>> /\ fails = 1..Len(hs))
                  /\ (out.view = "metrics") <=> (fails # 1..Len(hs))
                  /\ out.view = "info" => out.warning = None
                  /\ fails # {} =>
                        out.warning =
                            Some([count  |-> Cardinality(fails),
                                  latest |-> hs[NthLargest(fails, 1)].error[1]])

\* A run has shown the all-failed view with a warning that counts three
\* failures, the last message differing from the first.
C13_Witness ==
    \E s \in Sessions :
        /\ spc[s] = "render"
        /\ DashboardOf(s).view = "all_failed"
        /\ DashboardOf(s).warning # None
        /\ DashboardOf(s).warning[1].count = 3
        /\ DashboardOf(s).warning[1].latest # appendLog[1].error[1]

\* C14: when its list holds a successful Sample, a dashboard run's table holds
\* the min(15, number of successes) most recent successful Samples and nothing
\* else, most recent first, and its metrics are the readings of the most
\* recent successful Sample.
C14_RecentSuccessesTable ==
    \A s \in Sessions :
          (spc[s] = "render" /\ SucceededAt(snap[s].history_snapshot[1]) # {}) =>
              LET hs  == snap[s].history_snapshot[1]
                  out == DashboardOf(s)
                  ok  == SucceededAt(hs)
              IN  /\ Len(out.table) = Min(TABLE_ROWS, Cardinality(ok))
                  /\ \A j \in 1..Len(out.table) :
                        LET x == hs[NthLargest(ok, j)]
                        IN  out.table[j] = [Time |-> x.time, Download |-> x.download,
                                            Upload |-> x.upload, Ping |-> x.ping]
                  /\ out.metrics =
                        Some([download |-> hs[NthLargest(ok, 1)].download[1],
                              upload   |-> hs[NthLargest(ok, 1)].upload[1],
                              ping     |-> hs[NthLargest(ok, 1)].ping[1]])

\* A run over 17 successful Samples has shown a table of 15 rows that starts
\* with the newest Sample and ends with the third.
C14_Witness ==
    \E s \in Sessions :
        /\ spc[s] = "render"
        /\ Len(appendLog) = 17
        /\ \A i \in 1..17 : IsSuccess(appendLog[i])
        /\ Len(DashboardOf(s).table) = TABLE_ROWS
        /\ DashboardOf(s).table[1].Time = appendLog[17].time
        /\ DashboardOf(s).table[TABLE_ROWS].Time = appendLog[3].time

\* C15: a dashboard run that has read testing = False and a last_test_time
\* that is not None holds a list that is not empty and whose newest Sample
\* carries that last_test_time; in particular it never renders the "Last test"
\* status over an empty list.
C15_StatusMatchesHistory ==
    \A s \in Sessions :
        (/\ spc[s] = "render"
         /\ snap[s].is_testing = Some(FALSE)
         /\ snap[s].last_test # Some(None)) =>
            LET hs == snap[s].history_snapshot[1]
            IN  /\ hs # <<>>
                /\ Some(hs[Len(hs)].datetime) = snap[s].last_test[1]

\* C16: while the worker sleeps, testing is false, the deque is not empty and
\* last_test_time is the datetime of its newest Sample; and last_test_time is
\* None exactly as long as no Recording has begun to write (nothing has been
\* appended).
C16_QuiescentCoherent ==
    /\ wpc = "sleep" =>
          /\ ~testing
          /\ history # <<>>
          /\ last_test_time = Some(history[Len(history)].datetime)
    /\ (last_test_time = None) <=> (appendLog = <<>>)

\* C16, amended: while the worker sleeps, testing is false, the deque is not
\* empty and last_test_time is the datetime of its newest Sample; and
\* last_test_time is None exactly as long as no Recording has stored it
\* (lines 64 and 76), which includes the steps of the first Recording between
\* its append and that store.
C16_QuiescentCoherentAmended ==
    /\ wpc = "sleep" =>
          /\ ~testing
          /\ history # <<>>
          /\ last_test_time = Some(history[Len(history)].datetime)
    /\ (last_test_time = None) <=>
          \/ attempts = 0
          \/ /\ attempts = 1
             /\ wpc \in {"measuring", "append_ok", "except", "set_last_ok",
                         "set_last_err"}
    /\ appendLog = <<>> => last_test_time = None

\* The worker sleeps after its second Recording, and last_test_time is the
\* datetime of the second Sample, not of the first.
C16_Witness ==
    /\ wpc = "sleep"
    /\ Len(history) = 2
    /\ last_test_time = Some(history[2].datetime)
    /\ last_test_time # Some(history[1].datetime)

\* C17: thread_started is false at first, never goes back to false, is true
\* only when a worker has been started, and once it is true no start guard
\* starts another worker.
C17_FlagMonotonicTruthful ==
    /\ ~thread_started
    /\ [][thread_started =>
            (thread_started' /\ workersStarted' = workersStarted)]_vars
    /\ [](thread_started => (workersStarted >= 1 /\ wpc # "idle"))

\* A second session has passed the check with the flag set, while the worker
\* started by the first is at work, and no other worker was started.
C17_Witness ==
    \E s \in Sessions, s2 \in Sessions :
        /\ s # s2
        /\ spc[s2] \in DashboardPcs
        /\ spc[s] = "release"
        /\ thread_started
        /\ workersStarted = 1
        /\ attempts >= 1

====
